---- MODULE Spec2Model ----
(***************************************************************************)
(* Session authentication of fastapi-beanie-starter: the /auth/token,      *)
(* /auth/login and /auth/refresh_token handlers, the token helpers of      *)
(* app/core/security.py and the platform-aware delivery of the login       *)
(* router.                                                                 *)
(*                                                                         *)
(* Time is counted in whole minutes, the unit of the two TTL settings.     *)
(* `now` is the last value read from the clock. A call of datetime.now()   *)
(* returns that value or a later one: the clock may advance between any    *)
(* two reads, also inside one synchronous block.                           *)
(* A handler is split into one action per await.                           *)
(***************************************************************************)
EXTENDS Integers, FiniteSets, Sequences, TLC

\* ------------------------------------------------------------- bounds
\* The clock runs over 0..MaxTime.
MaxTime == 2
\* The TTL settings range over 0..MaxTTL minutes.
MaxTTL == 2

\* ------------------------------------------------------------- values
\* Python's None.
None == [none |-> TRUE]
\* A datetime field that holds None (User.last_login_date before a login).
NoDate == 0 - 1
\* expires_delta = None.
NoDelta == 0 - 1

\* The concurrent requests.
Procs == {"r1", "r2"}

\* The signing algorithm of jwt.encode.
ALGORITHM == "HS256"

\* expires_in is given in seconds: ACCESS_TOKEN_EXPIRE_MINUTES * 60.
SecondsPerMinute == 60

\* datetime.timedelta(minutes = m), in the model's unit.
timedelta(minutes) == minutes

\* ------------------------------------------------------------- passwords
\* bcrypt.hashpw: the digest of the password under the salt; the salt is
\* kept in the hash string.
hashpw(password, salt) == [salt |-> salt, digest |-> <<salt, password>>]

\* security.verify_password: bcrypt.checkpw hashes the plain password under
\* the salt of the stored hash and compares.
verify_password(plain_password, hashed_password) ==
    hashpw(plain_password, hashed_password.salt) = hashed_password

\* ------------------------------------------------------------- the store
\* The users collection as it is before any login. "ann@x" is the username
\* of u2 and the email of u1.
UserIds == {"u1", "u2"}

InitialUsers ==
    [u \in UserIds |->
        IF u = "u1"
        THEN [id |-> "u1", username |-> "ann", email |-> "ann@x",
              password |-> hashpw("pw1", "s1"), last_login_date |-> NoDate]
        ELSE [id |-> "u2", username |-> "ann@x", email |-> "bob@x",
              password |-> hashpw("pw2", "s2"), last_login_date |-> NoDate]]

\* What a caller may submit as username and as password.
Identifiers == {"ann", "ann@x", "bob@x", "nobody"}
Passwords == {"pw1", "pw2"}

\* schemas.Platform.
Platform == {"web", "mobile"}

\* Mutant of find_one_username: a user with that email is preferred to the
\* user with that username.
find_one_username_EmailFirst(d, name) ==
    IF \E u \in DOMAIN d : d[u].email = name
    THEN d[CHOOSE u \in DOMAIN d : d[u].email = name]
    ELSE IF \E u \in DOMAIN d : d[u].username = name
    THEN d[CHOOSE u \in DOMAIN d : d[u].username = name]
    ELSE None

\* models.User.find_one(models.User.username == name) on collection d.
find_one_username(d, name) ==
    IF \E u \in DOMAIN d : d[u].username = name
    THEN d[CHOOSE u \in DOMAIN d : d[u].username = name]
    ELSE None

\* models.User.find_one(models.User.email == name) on collection d.
find_one_email(d, name) ==
    IF \E u \in DOMAIN d : d[u].email = name
    THEN d[CHOOSE u \in DOMAIN d : d[u].email = name]
    ELSE None

VARIABLES
    now,        \* the clock, in minutes
    settings,   \* app.core.config.settings, read-only after start
    db,         \* the users collection: id -> document
    pc,         \* where each request stands
    form,       \* the request's form data
    user,       \* the handler's local `user` document (a copy of the stored one)
    resp,       \* the response sent, None before
    hist,       \* history of each request, for the properties
    minted,     \* history: the tokens each create_*_token call has returned
    cli         \* a run of the generate command and the module directory it writes

vars == <<now, settings, db, pc, form, user, resp, hist, minted, cli>>

\* ------------------------------------------------------------- tokens
\* jwt.encode(claims, key, algorithm): the token is determined by its
\* header, claims and key; equal inputs give the same string.
jwt_encode(claims, key, algorithm) ==
    [alg |-> algorithm, claims |-> claims, key |-> key]

\* `if expires_delta:` is false for None and for a zero timedelta.
Truthy(expires_delta) == expires_delta # NoDelta /\ expires_delta # 0

\* Mutant of create_access_token: the claims are built with the keys of
\* data but not its values.
create_access_token_BlankClaims(data, expires_delta, t) ==
    LET expire == IF Truthy(expires_delta)
                  THEN t + expires_delta
                  ELSE t + timedelta(settings.ACCESS_TOKEN_EXPIRE_MINUTES)
        to_encode == [exp |-> expire] @@ [k \in DOMAIN data |-> ""]
    IN  jwt_encode(to_encode, settings.SECRET_KEY, ALGORITHM)

\* The caller's dict after create_access_token or create_refresh_token
\* returned: `to_encode = data.copy()`, and update({"exp": expire}) is
\* applied to the copy.
data_after_create_token(data, expires_delta, t) == data

\* security.create_access_token, with t the value datetime.now() returns.
create_access_token(data, expires_delta, t) ==
    LET expire == IF Truthy(expires_delta)
                  THEN t + expires_delta
                  ELSE t + timedelta(settings.ACCESS_TOKEN_EXPIRE_MINUTES)
        to_encode == [exp |-> expire] @@ data
    IN  jwt_encode(to_encode, settings.SECRET_KEY, ALGORITHM)

\* security.create_refresh_token, with t the value datetime.now() returns.
create_refresh_token(data, expires_delta, t) ==
    LET expire == IF Truthy(expires_delta)
                  THEN t + expires_delta
                  ELSE t + timedelta(settings.REFRESH_TOKEN_EXPIRE_MINUTES)
        to_encode == [exp |-> expire] @@ data
    IN  jwt_encode(to_encode, settings.SECRET_KEY, ALGORITHM)

\* ------------------------------------------------------------- responses
Response(status, detail, headers, body, cookies) ==
    [status |-> status, detail |-> detail, headers |-> headers,
     body |-> body, cookies |-> cookies]

\* HTTPException(status_code, detail, headers).
HTTPException(status_code, detail, headers) ==
    Response(status_code, detail, headers, None, {})

HTTP_401_UNAUTHORIZED == 401
HTTP_200_OK == 200

\* /auth/login: no user has the identifier as username or email.
LoginNoUser == HTTPException(HTTP_401_UNAUTHORIZED, "Incorrect username or password", {})

\* Mutant of LoginBadPassword: the detail names the field that failed.
LoginBadPassword_NamesField ==
    HTTPException(HTTP_401_UNAUTHORIZED, "Incorrect password", {})

\* /auth/login: user.verify_password returned false.
LoginBadPassword == HTTPException(HTTP_401_UNAUTHORIZED, "Incorrect username or password", {})

\* /auth/token: no user has that username.
TokenNoUser ==
    HTTPException(HTTP_401_UNAUTHORIZED, "Incorrect username or password",
                  {<<"WWW-Authenticate", "Bearer">>})

\* What the history keeps of a request: its endpoint, how it ended, the
\* clock values its datetime.now() calls returned, the token presented and
\* when, the Token that authentication returned (before delivery), whether
\* the password verified, and the logins in flight when it was answered.
NoHist == [endpoint |-> "", cause |-> "", stamped_at |-> NoDate,
           access_at |-> NoDate, refresh_at |-> NoDate,
           expires_read_at |-> NoDate, presented |-> None,
           presented_at |-> NoDate, token |-> None, verified |-> FALSE,
           sub |-> "", platform |-> "", overlaps |-> {},
           platform_given |-> FALSE]

Started(endpoint) == [NoHist EXCEPT !.endpoint = endpoint]

\* ------------------------------------------------------------- the generate command
\* The create_file_from_template calls of generate, in their order: the
\* template and the file of the module directory it is written to.
Templates ==
    <<[template_name |-> "__init__.py.j2", output_path |-> "__init__.py"],
      [template_name |-> "model.py.j2", output_path |-> "model.py"],
      [template_name |-> "schemas.py.j2", output_path |-> "schemas.py"],
      [template_name |-> "use_case.py.j2", output_path |-> "use_case.py"],
      [template_name |-> "router.py.j2", output_path |-> "router.py"]>>

\* The files of the module directory.
FileNames == {Templates[i].output_path : i \in DOMAIN Templates}

\* What a path holds when there is no file at it.
Absent == "<absent>"

\* What a file that is in the module directory before the run may hold.
ExistingContents == {"", "edited by hand"}

\* render_template(template_name, context): the text of the template for
\* the module, never empty.
render_template(template_name) ==
    CASE template_name = "__init__.py.j2" -> "generated __init__"
      [] template_name = "model.py.j2" -> "generated model"
      [] template_name = "schemas.py.j2" -> "generated schemas"
      [] template_name = "use_case.py.j2" -> "generated use_case"
      [] template_name = "router.py.j2" -> "generated router"

\* Path.write_text(content) on the directory `files`.
write_text(files, path, content) == [files EXCEPT ![path] = content]

\* create_file_from_template: the directory after the call.
create_file_from_template(files, template_name, output_path, overwrite) ==
    IF files[output_path] # Absent /\ ~overwrite
    THEN files
    ELSE write_text(files, output_path, render_template(template_name))

\* No run of the command, and an empty module directory.
NoRun == [pc |-> "off", next |-> 1, overwrite |-> FALSE,
          files |-> [f \in FileNames |-> Absent],
          before |-> [f \in FileNames |-> Absent]]

\* ------------------------------------------------------------- start
\* No request has arrived; no user has logged in. The settings are any two
\* lifetimes with access TTL <= refresh TTL and stay as they are.
InitAuth ==
    /\ now = 0
    /\ settings \in {[ACCESS_TOKEN_EXPIRE_MINUTES |-> a,
                      REFRESH_TOKEN_EXPIRE_MINUTES |-> r,
                      SECRET_KEY |-> "secret"] :
                        a \in 0..MaxTTL, r \in 0..MaxTTL}
    /\ settings.ACCESS_TOKEN_EXPIRE_MINUTES <= settings.REFRESH_TOKEN_EXPIRE_MINUTES
    /\ db = InitialUsers
    /\ pc = [p \in Procs |-> "idle"]
    /\ form = [p \in Procs |-> None]
    /\ user = [p \in Procs |-> None]
    /\ resp = [p \in Procs |-> None]
    /\ hist = [p \in Procs |-> NoHist]
    /\ minted = [access |-> {}, refresh |-> {}]

\* The server starts; the generate command is not run.
Init ==
    /\ InitAuth
    /\ cli = NoRun

\* The values a call of datetime.now() may return: the clock does not go
\* back, and it may have advanced since it was last read.
ClockReads == now..MaxTime

\* The handler returns or raises: the response is sent and its locals are gone.
Finish(p, r, h) ==
    /\ pc' = [pc EXCEPT ![p] = "done"]
    /\ form' = [form EXCEPT ![p] = None]
    /\ user' = [user EXCEPT ![p] = None]
    /\ resp' = [resp EXCEPT ![p] = r]
    /\ hist' = [hist EXCEPT ![p] = h]

\* ------------------------------------------------------------- POST /auth/token
\* login_for_access_token: `return {"access_token": ..., "token_type": "bearer"}`.
TokenResponse(access_token) ==
    Response(HTTP_200_OK, "", {},
             [access_token |-> access_token, token_type |-> "bearer"], {})

\* login_for_access_token: find_one by username, then the token.
login_for_access_token(p) ==
    /\ pc[p] = "idle"
    /\ \E username \in Identifiers, password \in Passwords, t \in ClockReads :
        LET found == find_one_username(db, username)
            access_token_expires == timedelta(settings.ACCESS_TOKEN_EXPIRE_MINUTES)
            access_token == create_access_token([sub |-> found.id],
                                                access_token_expires, t)
        IN  IF found = None
            THEN /\ t = now
                 /\ Finish(p, TokenNoUser, [Started("token") EXCEPT !.cause = "no_user"])
                 /\ UNCHANGED <<now, minted>>
            ELSE /\ now' = t
                 /\ minted' = [minted EXCEPT !.access = @ \cup {access_token}]
                 /\ Finish(p, TokenResponse(access_token),
                      [Started("token") EXCEPT !.cause = "token", !.access_at = t,
                                     !.sub = found.id,
                                     !.verified = verify_password(password, found.password)])
    /\ UNCHANGED <<settings, db, cli>>

\* ------------------------------------------------------------- POST /auth/login
\* schemas.Token.
Token(access_token, refresh_token, token_type, scope, expires_in, expires_at, issued_at) ==
    [access_token |-> access_token, refresh_token |-> refresh_token,
     token_type |-> token_type, scope |-> scope, expires_in |-> expires_in,
     expires_at |-> expires_at, issued_at |-> issued_at]

\* authentication, from `access_token_expires = ...` to the return: the
\* Token for the verified user u, with t1, t2 and t3 the values the three
\* datetime.now() calls return (in create_access_token, in
\* create_refresh_token and for expires_at).
authentication_token(u, t1, t2, t3) ==
    LET access_token_expires == timedelta(settings.ACCESS_TOKEN_EXPIRE_MINUTES)
    IN  Token(create_access_token([sub |-> u.id], access_token_expires, t1),
              create_refresh_token([sub |-> u.id], access_token_expires, t2),
              "Bearer",
              "",
              settings.ACCESS_TOKEN_EXPIRE_MINUTES * SecondsPerMinute,
              t3 + access_token_expires,
              u.last_login_date)

\* response.set_cookie(key, value, httponly, samesite, secure) of the login
\* router; no max_age and no expires are passed.
set_cookie(key, value) ==
    [key |-> key, value |-> value, httponly |-> TRUE, samesite |-> "strict",
     secure |-> TRUE, max_age |-> None]

\* Mutant of login: the web body is sent without hiding the refresh token.
login_KeepsRefreshInBody(platform, token) ==
    IF platform = "web"
    THEN [cookies |-> {set_cookie("refresh_token", token.refresh_token)},
          body |-> token]
    ELSE [cookies |-> {}, body |-> token]

\* Mutant of login: the refresh token is hidden before the cookie is set.
login_HidesBeforeCookie(platform, token) ==
    IF platform = "web"
    THEN [cookies |-> {set_cookie("refresh_token", None)},
          body |-> [token EXCEPT !.refresh_token = None]]
    ELSE [cookies |-> {}, body |-> token]

\* The login router after use_case.authenticate returned `token`: the
\* cookies set on the response and the Token sent as its body.
login(platform, token) ==
    IF platform = "web"
    THEN [cookies |-> {set_cookie("refresh_token", token.refresh_token)},
          body |-> [token EXCEPT !.refresh_token = None]]
    ELSE [cookies |-> {}, body |-> token]

\* A request body field that the client left out.
Unset == "<unset>"

\* Mutant of SignIn: a body without platform is read as a web login.
SignIn_DefaultWeb(username, password, platform) ==
    [username |-> username, password |-> password,
     platform |-> IF platform = Unset THEN "web" ELSE platform,
     fields_set |-> {"username", "password"}
                        \cup (IF platform = Unset THEN {} ELSE {"platform"})]

\* schemas.SignIn parsed from a request body: `platform: Platform =
\* Platform.MOBILE` fills in a platform the body does not give. fields_set
\* is the model's model_fields_set, the fields the body did give.
SignIn(username, password, platform) ==
    [username |-> username, password |-> password,
     platform |-> IF platform = Unset THEN "mobile" ELSE platform,
     fields_set |-> {"username", "password"}
                        \cup (IF platform = Unset THEN {} ELSE {"platform"})]

\* The requests that are inside authentication.
InLogin == {q \in Procs : pc[q] \in {"find_email", "verify", "save", "issue"}}

\* authentication: user = find_one(username == form_data.username).
authentication_find_username(p) ==
    /\ pc[p] = "idle"
    /\ \E username \in Identifiers, password \in Passwords,
          platform \in Platform \cup {Unset} :
        LET found == find_one_username(db, username)
        IN  /\ form' = [form EXCEPT ![p] = SignIn(username, password, platform)]
            /\ user' = [user EXCEPT ![p] = found]
            /\ pc' = [pc EXCEPT ![p] = IF found = None THEN "find_email" ELSE "verify"]
    /\ UNCHANGED <<now, settings, db, resp, hist, minted, cli>>

\* authentication: no user by username, so find_one(email == form_data.username);
\* 401 when there is none either.
authentication_find_email(p) ==
    /\ pc[p] = "find_email"
    /\ LET found == find_one_email(db, form[p].username)
       IN  IF found = None
           THEN Finish(p, LoginNoUser,
                       [Started("login") EXCEPT !.cause = "no_user"])
           ELSE /\ user' = [user EXCEPT ![p] = found]
                /\ pc' = [pc EXCEPT ![p] = "verify"]
                /\ UNCHANGED <<form, resp, hist>>
    /\ UNCHANGED <<now, settings, db, minted, cli>>

\* authentication: await user.verify_password(form_data.password); 401 when
\* it is false, else user.last_login_date = datetime.now().
authentication_verify(p) ==
    /\ pc[p] = "verify"
    /\ IF ~verify_password(form[p].password, user[p].password)
       THEN /\ Finish(p, LoginBadPassword,
                      [Started("login") EXCEPT !.cause = "bad_password"])
            /\ UNCHANGED now
       ELSE \E t \in ClockReads :
            /\ now' = t
            /\ user' = [user EXCEPT ![p].last_login_date = t]
            /\ pc' = [pc EXCEPT ![p] = "save"]
            /\ UNCHANGED <<form, resp, hist>>
    /\ UNCHANGED <<settings, db, minted, cli>>

\* Mutant of authentication_save: the login time is written to every user.
authentication_save_StampsAll(p) ==
    /\ pc[p] = "save"
    /\ db' = [u \in UserIds |->
                [db[u] EXCEPT !.last_login_date = user[p].last_login_date]]
    /\ pc' = [pc EXCEPT ![p] = "issue"]
    /\ UNCHANGED <<now, settings, form, user, resp, hist, minted, cli>>

\* authentication: await user.save() writes the local document to the store.
authentication_save(p) ==
    /\ pc[p] = "save"
    /\ db' = [db EXCEPT ![user[p].id] = user[p]]
    /\ pc' = [pc EXCEPT ![p] = "issue"]
    /\ UNCHANGED <<now, settings, form, user, resp, hist, minted, cli>>

\* authentication returns the Token and the login router delivers it. The
\* block is synchronous; the clock may advance between its three reads.
authentication_issue(p) ==
    /\ pc[p] = "issue"
    /\ \E t1, t2, t3 \in ClockReads :
        LET token == authentication_token(user[p], t1, t2, t3)
            sent == login(form[p].platform, token)
        IN  /\ t1 <= t2 /\ t2 <= t3
            /\ now' = t3
            /\ minted' = [access |-> minted.access \cup {token.access_token},
                          refresh |-> minted.refresh \cup {token.refresh_token}]
            /\ Finish(p, Response(HTTP_200_OK, "", {}, sent.body, sent.cookies),
                      [Started("login") EXCEPT !.cause = "login",
                          !.verified = TRUE,
                          !.stamped_at = user[p].last_login_date,
                          !.overlaps = InLogin \ {p},
                          !.access_at = t1, !.refresh_at = t2,
                          !.expires_read_at = t3,
                          !.token = token, !.sub = user[p].id,
                          !.platform = form[p].platform,
                          !.platform_given = "platform" \in form[p].fields_set])
    /\ UNCHANGED <<settings, db, cli>>

\* ------------------------------------------------------------- token validation
\* Mutant of decode: a token is still good at the instant of its expiry.
decode_GoodAtExpiry(token, expectedKind, t) ==
    IF token.key # settings.SECRET_KEY \/ token.alg # ALGORITHM
    THEN [error |-> "InvalidTokenError", claims |-> None]
    ELSE IF t > token.claims.exp
    THEN [error |-> "ExpiredTokenError", claims |-> None]
    ELSE IF "kind" \in DOMAIN token.claims /\ token.claims.kind # expectedKind
    THEN [error |-> "WrongTokenKindError", claims |-> None]
    ELSE [error |-> "", claims |-> token.claims]

\* ClaimsCodec.decode(token, expectedKind) at time t: the signature, then the
\* expiry, then the kind. The kind is read from the token's claims; claims
\* that carry no kind cannot mismatch (create_access_token and
\* create_refresh_token write none, and their tokens are redeemable).
decode(token, expectedKind, t) ==
    IF token.key # settings.SECRET_KEY \/ token.alg # ALGORITHM
    THEN [error |-> "InvalidTokenError", claims |-> None]
    ELSE IF t >= token.claims.exp
    THEN [error |-> "ExpiredTokenError", claims |-> None]
    ELSE IF "kind" \in DOMAIN token.claims /\ token.claims.kind # expectedKind
    THEN [error |-> "WrongTokenKindError", claims |-> None]
    ELSE [error |-> "", claims |-> token.claims]

\* A token validation failure as the caller sees it: 401, one text for all kinds.
TokenRejected == HTTPException(HTTP_401_UNAUTHORIZED, "invalid or expired token", {})

\* jwt_handler.refresh_token(refresh_token): TokenRefresher.refresh. Decodes
\* at t0 as kind refresh and issues an access token for the subject at t1.
jwt_handler_refresh_token(token, t0, t1) ==
    LET d == decode(token, "refresh", t0)
    IN  IF d.error # ""
        THEN [error |-> d.error, new_token |-> None]
        ELSE [error |-> "",
              new_token |-> create_access_token([sub |-> d.claims.sub], NoDelta, t1)]

\* schemas.GetAccessTokenResponse, the response model of refresh_token.
GetAccessTokenResponse(access_token, token_type) ==
    [access_token |-> access_token, token_type |-> token_type]

\* refresh_token of the auth module's router: what use_case.refresh_token
\* returns, sent as a GetAccessTokenResponse.
RefreshResponse(new_token) ==
    Response(HTTP_200_OK, "", {}, GetAccessTokenResponse(new_token, "bearer"), {})

\* An exception no handler catches: 500.
HTTP_500_INTERNAL_SERVER_ERROR == 500
InternalServerError ==
    Response(HTTP_500_INTERNAL_SERVER_ERROR, "Internal Server Error", {}, None, {})

\* A token signed with a key that is not the server's.
ForgedToken ==
    jwt_encode([sub |-> "u1", exp |-> MaxTime + MaxTTL + 1], "guess", ALGORITHM)

\* The tokens a caller may put in the Authorization header.
Presentable == minted.access \cup minted.refresh \cup {ForgedToken}

\* ------------------------------------------------------------- GET /auth/refresh_token
refresh_token(p) ==
    /\ pc[p] = "idle"
    /\ \E credentials \in Presentable :
       \E t0, t1 \in ClockReads :
        LET r == jwt_handler_refresh_token(credentials, t0, t1)
        IN  /\ t0 <= t1
            /\ IF r.error # ""
               THEN /\ t1 = t0
                    /\ now' = t0
                    /\ Finish(p, TokenRejected,
                              [Started("refresh") EXCEPT !.cause = r.error,
                                  !.presented = credentials, !.presented_at = t0])
                    /\ UNCHANGED minted
               ELSE /\ now' = t1
                    /\ minted' = [minted EXCEPT !.access = @ \cup {r.new_token}]
                    /\ Finish(p, RefreshResponse(r.new_token),
                              [Started("refresh") EXCEPT !.cause = "refreshed",
                                  !.access_at = t1, !.presented = credentials,
                                  !.presented_at = t0,
                                  !.sub = credentials.claims.sub])
    /\ UNCHANGED <<settings, db, cli>>

\* refresh_token of app/routers/v1/auth.py: `jwt_handler = get_jwt_handler()`
\* names a function the module neither defines nor imports, so the call
\* raises NameError before the token is looked at.
app_refresh_token(p) ==
    /\ pc[p] = "idle"
    /\ \E credentials \in Presentable :
        Finish(p, InternalServerError,
               [Started("app_refresh") EXCEPT !.cause = "NameError",
                              !.presented = credentials, !.presented_at = now])
    /\ UNCHANGED <<now, settings, db, minted, cli>>

\* ------------------------------------------------------------- a protected call
\* A request that presents a bearer token where an access token is expected:
\* ClaimsCodec.decode(token, kind = access).
authorize(p) ==
    /\ pc[p] = "idle"
    /\ \E credentials \in Presentable, t \in ClockReads :
        LET d == decode(credentials, "access", t)
        IN  /\ now' = t
            /\ IF d.error # ""
               THEN Finish(p, TokenRejected,
                           [Started("authorize") EXCEPT !.cause = d.error,
                               !.presented = credentials, !.presented_at = t])
               ELSE Finish(p, Response(HTTP_200_OK, "", {}, [subject |-> d.claims.sub], {}),
                           [Started("authorize") EXCEPT !.cause = "authorized",
                               !.presented = credentials, !.presented_at = t,
                               !.sub = d.claims.sub])
    /\ UNCHANGED <<settings, db, minted, cli>>

Next ==
    \/ \E p \in Procs : login_for_access_token(p)
    \/ \E p \in Procs : authentication_find_username(p)
    \/ \E p \in Procs : authentication_find_email(p)
    \/ \E p \in Procs : authentication_verify(p)
    \/ \E p \in Procs : authentication_save(p)
    \/ \E p \in Procs : authentication_issue(p)
    \/ \E p \in Procs : refresh_token(p)
    \/ \E p \in Procs : app_refresh_token(p)
    \/ \E p \in Procs : authorize(p)

Spec == Init /\ [][Next]_vars

\* ------------------------------------------------------------- a run of generate
\* generate is started, with or without --overwrite, on a module directory
\* that holds any of the files already.
InitCli ==
    /\ InitAuth
    /\ \E overwrite \in BOOLEAN, files \in [FileNames -> ExistingContents \cup {Absent}] :
        cli = [pc |-> "start", next |-> 1, overwrite |-> overwrite,
               files |-> files, before |-> files]

\* generate, up to its first create_file_from_template: the module
\* directory is made and init_file.write_text("") is called.
generate_init_file ==
    /\ cli.pc = "start"
    /\ cli' = [cli EXCEPT !.pc = "create",
                          !.files = write_text(cli.files, "__init__.py", "")]
    /\ UNCHANGED <<now, settings, db, pc, form, user, resp, hist, minted>>

\* generate: its next create_file_from_template call; after the last one
\* the command ends.
generate_create_file ==
    /\ cli.pc = "create"
    /\ LET call == Templates[cli.next]
       IN  cli' = [cli EXCEPT
                    !.files = create_file_from_template(cli.files, call.template_name,
                                                        call.output_path, cli.overwrite),
                    !.next = IF cli.next = Len(Templates) THEN @ ELSE @ + 1,
                    !.pc = IF cli.next = Len(Templates) THEN "done" ELSE "create"]
    /\ UNCHANGED <<now, settings, db, pc, form, user, resp, hist, minted>>

NextCli ==
    \/ generate_init_file
    \/ generate_create_file

SpecCli == InitCli /\ [][NextCli]_vars

\* ------------------------------------------------------------- properties
Done(p) == pc[p] = "done"

\* The requests that went through authentication and got their Token.
LoggedIn == {p \in Procs : Done(p) /\ hist[p].endpoint = "login" /\ hist[p].cause = "login"}

\* The /auth/refresh_token requests that were answered with a new token.
Refreshed == {p \in Procs : Done(p) /\ hist[p].endpoint = "refresh" /\ hist[p].cause = "refreshed"}

\* The protected calls that were let through.
Authorized == {p \in Procs : Done(p) /\ hist[p].endpoint = "authorize" /\ hist[p].cause = "authorized"}

C2_TokenOnlyForVerifiedPassword ==
    \A p \in Procs :
        (Done(p) /\ hist[p].endpoint = "token") =>
            IF hist[p].verified
            THEN resp[p].status = HTTP_200_OK /\ resp[p].body # None
            ELSE /\ resp[p].status = HTTP_401_UNAUTHORIZED
                 /\ resp[p].detail = "Incorrect username or password"
                 /\ resp[p].body = None

\* C3: the login failure for an unknown identifier and the login failure for
\* a wrong password are the same response: status 401, same detail, same
\* headers, no body, no cookie, and no token issued.
C3_LoginFailuresIndistinguishable ==
    \A p, q \in Procs :
        (/\ Done(p) /\ hist[p].endpoint = "login" /\ hist[p].cause = "no_user"
         /\ Done(q) /\ hist[q].endpoint = "login" /\ hist[q].cause = "bad_password")
        => /\ resp[p] = resp[q]
           /\ resp[p].status = HTTP_401_UNAUTHORIZED
           /\ resp[p].body = None /\ resp[q].body = None
           /\ resp[p].cookies = {} /\ resp[q].cookies = {}

\* C3 witness: one login failed on the lookup and another on the password.
C3_Witness ==
    \E p, q \in Procs :
        /\ Done(p) /\ hist[p].endpoint = "login" /\ hist[p].cause = "no_user"
        /\ Done(q) /\ hist[q].endpoint = "login" /\ hist[q].cause = "bad_password"

\* C4: the body of a web login never holds a refresh token, and the body of
\* a mobile login always holds the refresh token that login issued.
C4_BodyRefreshTokenByPlatform ==
    \A p \in LoggedIn :
        /\ hist[p].platform = "web" => resp[p].body.refresh_token = None
        /\ hist[p].platform = "mobile" =>
              /\ resp[p].body.refresh_token = hist[p].token.refresh_token
              /\ resp[p].body.refresh_token \in minted.refresh

\* C4 witness: a web login and a mobile login have both been answered.
C4_Witness ==
    \E p, q \in LoggedIn : hist[p].platform = "web" /\ hist[q].platform = "mobile"

\* C5: a web login sets exactly one cookie, refresh_token, whose value is the
\* refresh token that login issued, httpOnly, sameSite=strict, secure, with
\* no max-age; a mobile login sets no cookie.
C5_CookieByPlatform ==
    \A p \in LoggedIn :
        /\ hist[p].platform = "web" =>
              /\ hist[p].token.refresh_token \in minted.refresh
              /\ resp[p].cookies =
                    {[key |-> "refresh_token",
                      value |-> hist[p].token.refresh_token,
                      httponly |-> TRUE, samesite |-> "strict",
                      secure |-> TRUE, max_age |-> None]}
        /\ hist[p].platform = "mobile" => resp[p].cookies = {}

\* C5 witness: a web login has been answered with its cookie.
C5_Witness ==
    \E p \in LoggedIn : hist[p].platform = "web" /\ resp[p].cookies # {}

\* C6: in every pair a login issues, the access token lives for the access
\* TTL and the refresh token for the refresh TTL, access TTL <= refresh TTL,
\* and the refresh token does not expire before the access token.
C6_IndependentLifetimes ==
    \A p \in LoggedIn :
        LET access == hist[p].token.access_token
            refresh == hist[p].token.refresh_token
        IN  /\ access.claims.exp - hist[p].access_at =
                  timedelta(settings.ACCESS_TOKEN_EXPIRE_MINUTES)
            /\ refresh.claims.exp - hist[p].refresh_at =
                  timedelta(settings.REFRESH_TOKEN_EXPIRE_MINUTES)
            /\ settings.ACCESS_TOKEN_EXPIRE_MINUTES <= settings.REFRESH_TOKEN_EXPIRE_MINUTES
            /\ access.claims.exp <= refresh.claims.exp

\* The requests that presented a token the server signed.
PresentedSigned ==
    {p \in Procs : /\ Done(p) /\ hist[p].presented # None
                   /\ hist[p].presented.key = settings.SECRET_KEY
                   /\ hist[p].presented.alg = ALGORITHM}

C8_ConcurrentLoginsDistinctPairs ==
    \A p, q \in LoggedIn :
        (/\ p # q
         /\ hist[p].sub = hist[q].sub
         /\ (p \in hist[q].overlaps \/ q \in hist[p].overlaps))
        => /\ hist[p].token.access_token # hist[q].token.access_token
           /\ hist[p].token.refresh_token # hist[q].token.refresh_token

\* The requests to either refresh endpoint.
RefreshRequests ==
    {p \in Procs : Done(p) /\ hist[p].endpoint \in {"refresh", "app_refresh"}}

\* C9: refresh with a valid, unexpired refresh token returns a new access
\* token for the subject of the presented token and no refresh token; a
\* refresh that fails returns no token.
C9_RefreshReturnsAccessOnly ==
    \A p \in RefreshRequests :
        IF /\ hist[p].presented \in minted.refresh
           /\ hist[p].presented_at < hist[p].presented.claims.exp
        THEN /\ resp[p].status = HTTP_200_OK
             /\ "access_token" \in DOMAIN resp[p].body
             /\ "refresh_token" \notin DOMAIN resp[p].body
             /\ resp[p].body.access_token \in minted.access
             /\ resp[p].body.access_token.claims.sub = hist[p].presented.claims.sub
             /\ resp[p].cookies = {}
        ELSE resp[p].status # HTTP_200_OK => resp[p].body = None

\* C10: in every Token a login returns, expires_at is the exp claim of the
\* returned access token, issued_at is the instant that expiry was computed
\* from, and expires_at - issued_at is expires_in seconds.
C10_ExpiryFieldsMatchAccessClaims ==
    \A p \in LoggedIn :
        LET token == hist[p].token
        IN  /\ token.expires_at = token.access_token.claims.exp
            /\ token.issued_at = hist[p].access_at
            /\ (token.expires_at - token.issued_at) * SecondsPerMinute = token.expires_in

\* The access tokens that /auth/login and /auth/token returned, each with
\* the id of the user it was issued for and the instant it was made.
IssuedAccess ==
    {[token |-> hist[p].token.access_token, sub |-> hist[p].sub, at |-> hist[p].access_at] :
        p \in LoggedIn}
    \cup {[token |-> resp[p].body.access_token, sub |-> hist[p].sub, at |-> hist[p].access_at] :
        p \in {q \in Procs : Done(q) /\ hist[q].endpoint = "token" /\ hist[q].cause = "token"}}

C12_ExpiryAfterIssue ==
    /\ \A i \in IssuedAccess : i.token.claims.exp > i.at
    /\ \A p \in LoggedIn : hist[p].token.refresh_token.claims.exp > hist[p].refresh_at
    /\ \A p \in Refreshed : resp[p].body.access_token.claims.exp > hist[p].access_at

\* C13: a login whose body gives no platform is answered as a mobile login:
\* the refresh token that authentication returned is in the response body
\* and no cookie is set.
C13_DefaultPlatformMobile ==
    \A p \in LoggedIn :
        ~hist[p].platform_given =>
            /\ hist[p].platform = "mobile"
            /\ resp[p].body.refresh_token # None
            /\ resp[p].body.refresh_token = hist[p].token.refresh_token
            /\ resp[p].cookies = {}

\* C13 witness: a login without a platform was answered.
C13_Witness ==
    \E p \in LoggedIn :
        /\ ~hist[p].platform_given
        /\ resp[p].status = HTTP_200_OK
        /\ resp[p].body.refresh_token \in minted.refresh

\* The users an identifier stands for: the one with that username, and only
\* when there is none, the one with that email.
Resolved(name) ==
    IF \E u \in UserIds : InitialUsers[u].username = name
    THEN {u \in UserIds : InitialUsers[u].username = name}
    ELSE {u \in UserIds : InitialUsers[u].email = name}

\* One step of login request p, seen against the user its identifier stands for.
ResolvesUsernameFirst(p) ==
    /\ pc'[p] = "find_email" =>
            \A u \in UserIds : InitialUsers[u].username # form'[p].username
    /\ pc'[p] \in {"verify", "save", "issue"} =>
            user'[p].id \in Resolved(form'[p].username)
    /\ (pc[p] = "find_email" /\ Done(p)') =>
            /\ Resolved(form[p].username) = {}
            /\ resp'[p] = LoginNoUser
    /\ (pc[p] = "verify" /\ pc'[p] # "verify") =>
            \A u \in Resolved(form[p].username) :
                IF verify_password(form[p].password, InitialUsers[u].password)
                THEN pc'[p] = "save"
                ELSE /\ Done(p)'
                     /\ resp'[p].status = HTTP_401_UNAUTHORIZED
                     /\ resp'[p].detail = "Incorrect username or password"
                     /\ resp'[p].body = None
    /\ (pc[p] = "issue" /\ Done(p)') =>
            /\ hist'[p].sub \in Resolved(form[p].username)
            /\ hist'[p].token.access_token.claims.sub = hist'[p].sub
            /\ hist'[p].token.refresh_token.claims.sub = hist'[p].sub

\* C14: login looks the identifier up by username first and by email only
\* when no user has that username, and verifies the password against that
\* one user: with "ann@x", the username of u2 and the email of u1, the
\* request goes on as u2 when u2's password is given and ends with the
\* generic 401 otherwise, and never as u1.
C14_UsernameBeforeEmail == [][\A p \in Procs : ResolvesUsernameFirst(p)]_vars

\* C14 witness: a login with "ann@x" and u2's password has been verified
\* and saved as u2, and one with "bob@x" was resolved by email.
C14_Witness ==
    /\ \E p \in Procs :
          /\ pc[p] = "issue"
          /\ form[p].username = "ann@x"
          /\ user[p].id = "u2"
          /\ db["u2"].last_login_date # NoDate
    /\ \E p \in Procs :
          /\ pc[p] = "verify"
          /\ form[p].username = "bob@x"
          /\ user[p].id = "u2"

\* One step, seen from the store: what it may change and for whom.
OnlyLastLoginDateChanges ==
    /\ settings' = settings
    /\ \A u \in UserIds : DOMAIN db'[u] = DOMAIN InitialUsers[u]
    /\ \A u \in UserIds :
          db'[u] # db[u] =>
            \E p \in Procs :
              /\ pc[p] = "save" /\ pc'[p] = "issue"
              /\ user[p].id = u
              /\ verify_password(form[p].password, db[u].password)
              /\ user[p].last_login_date \in 0..now
              /\ db'[u] = [db[u] EXCEPT !.last_login_date = user[p].last_login_date]
              /\ \A v \in UserIds \ {u} : db'[v] = db[v]
    /\ \A p \in Procs :
          /\ (pc[p] = "issue" /\ Done(p)') =>
                /\ hist'[p].cause = "login"
                /\ hist'[p].stamped_at = user[p].last_login_date
          /\ (~Done(p) /\ Done(p)' /\ hist'[p].cause # "login") => db' = db
          /\ (pc[p] = "idle" /\ Done(p)') => db' = db

\* C15: the only stored state an auth operation changes is the
\* last_login_date of the user a login authenticated, set to that login's
\* time: a step that ends a failed login, a /auth/token request or a refresh
\* changes no record, a request that wrote always ends as a successful
\* login, and no record ever holds a token.
C15_OnlyLastLoginDateChanges == [][OnlyLastLoginDateChanges]_vars

\* C15 witness: a login was answered and its user's record differs from the
\* start in last_login_date only, the other record is as at the start, and a
\* /auth/token request was answered with a token.
C15_Witness ==
    \E p \in LoggedIn, q \in Procs :
        /\ db[hist[p].sub] = [InitialUsers[hist[p].sub] EXCEPT
                                    !.last_login_date = hist[p].stamped_at]
        /\ hist[p].stamped_at # NoDate
        /\ \A v \in UserIds \ {hist[p].sub} : db[v] = InitialUsers[v]
        /\ Done(q) /\ hist[q].endpoint = "token" /\ hist[q].cause = "token"

\* C16: the stored last_login_date of a user is never earlier than the
\* login time of a login of that user that has completed, whatever the
\* interleaving: a login that read the clock earlier and saved later does
\* not put an earlier time over a later one.
C16_LastLoginDateIsLatest ==
    \A p \in LoggedIn : db[hist[p].sub].last_login_date >= hist[p].stamped_at

\* C17: during and after a run of generate, a file that was in the module
\* directory before the run holds what it held then unless --overwrite was
\* given, in which case it holds the rendered template once the run is
\* over; a file that was missing is there once the run is over.
C17_GenerateKeepsExistingFiles ==
    \A f \in FileNames :
        /\ (cli.before[f] # Absent /\ ~cli.overwrite) => cli.files[f] = cli.before[f]
        /\ (cli.before[f] # Absent /\ cli.overwrite /\ cli.pc = "done") =>
                \E i \in DOMAIN Templates :
                    /\ Templates[i].output_path = f
                    /\ cli.files[f] = render_template(Templates[i].template_name)
        /\ (cli.before[f] = Absent /\ cli.pc = "done") => cli.files[f] # Absent
====
